---- MODULE Spec2Model ----
(***************************************************************************)
(* Model of simple_free_sdr.py: the SimpleSDR conversation store and the   *)
(* three control flows that use it: the cold email campaign (asyncio main  *)
(* task), the IMAP reply monitor (background thread) and the Flask webhook *)
(* route.  Texts are sequences of tokens, so that string concatenation is  *)
(* sequence concatenation and "is a prefix of" can be decided; addresses   *)
(* and subjects are sequences of characters, so that str.lower() and       *)
(* str.startswith() are computed character by character.                  *)
(***************************************************************************)
EXTENDS Naturals, Sequences, FiniteSets, TLC

(* ------------------------------ bounds --------------------------------- *)
\* messages that arrive in the inbox during a run
MaxMsgs == 2
\* entries of the recipient list given to run_cold_email_campaign
MaxRecipients == 1
\* exceptions the IMAP connection raises during a run
MaxFaults == 1
\* the count of hand-overs of one message to handle_reply saturates here
MaxHanded == 2
\* entries of the recipient list of a campaign that runs on its own, without
\* the monitor thread
MaxRecipientsAlone == 2

(* ------------------------------ strings -------------------------------- *)
\* Python None: a missing header (email_message['Subject']) or JSON key
None == <<"<None>">>

LowerChar(c) ==
    CASE c = "A" -> "a"
      [] c = "B" -> "b"
      [] c = "C" -> "c"
      [] c = "D" -> "d"
      [] c = "R" -> "r"
      [] c = "E" -> "e"
      [] OTHER -> c

\* str.lower()
Lower(s) == [i \in 1..Len(s) |-> LowerChar(s[i])]

\* str.startswith(p)
StartsWith(s, p) == Len(s) >= Len(p) /\ SubSeq(s, 1, Len(p)) = p

IsPrefix(p, s) == Len(p) <= Len(s) /\ SubSeq(s, 1, Len(p)) = p

Range(s) == {s[i] : i \in 1..Len(s)}

AddrLower == <<"a", "@", "b">>
AddrUpper == <<"A", "@", "B">>
AddrSpace == <<" ", "a", "@", "b">>
AddrOther == <<"c", "@", "d">>

SubjDemo == <<"D", "e", "m", "o">>
SubjReDemo == <<"R", "e", ":", " ", "D", "e", "m", "o">>
SubjLowerRe == <<"r", "e", ":", " ", "D", "e", "m", "o">>

BodyMore == <<"Tell me more">>
BodyStop == <<"Not interested">>

(* ---------------------------- Draft generation ------------------------- *)
PersonasReordered == <<"engaging", "professional", "concise">>
Personas == <<"professional", "engaging", "concise">>

FallbackEmail == <<"Hi CEO, I'd love to show you how ComplAI can help">>
ModelEmail(persona) == <<persona>>

\* generate_cold_email: the model's answer, or the canned text when the call raises
generate_cold_email(persona) == {ModelEmail(persona), FallbackEmail}

\* select_best_email: whatever the model answers (stripped), or emails[0] when
\* the call raises
ModelSelections(emails) == Range(emails) \cup {<<"Option 2 is the best">>}
select_best_email(emails) == ModelSelections(emails) \cup {emails[1]}

FallbackSubject == <<"Quick question about ComplAI">>
ModelSubject == <<"Cut SOC2 prep time">>
generate_subject(best_email) == {ModelSubject, FallbackSubject}

NoReply == <<>>
FallbackReply == <<"Thank you for your reply!">>
ModelReply == <<"Happy to share details">>
\* generate_reply: the model's answer, or the canned text when the call raises
generate_reply(original_email, body) == {ModelReply, FallbackReply}

(* ---------------------------- Conversation store ----------------------- *)
EmptyStore == [k \in {} |-> <<>>]

\* the dictionary key both writers use: recipient.lower(), from_email.lower()
KeyNoLower(addr) == addr
Key(addr) == Lower(addr)

\* self.conversations.get(key, "")
Get(store, key) == IF key \in DOMAIN store THEN store[key] ELSE <<>>

\* self.conversations[key] = text
Put(store, key, text) ==
    [k \in DOMAIN store \cup {key} |-> IF k = key THEN text ELSE store[k]]

TheirLabel == "--- THEIR REPLY ---"
MyLabel == "--- MY REPLY ---"

\* a reply text of three parts, the middle one being the line "--- MY REPLY ---"
BodyQuoting == <<"Sounds good", MyLabel, "Send it for free">>

\* f"{original_email}\n\n--- THEIR REPLY ---\n{body}\n\n--- MY REPLY ---\n{reply}"
NewThreadNoPrior(original_email, body, reply) ==
    <<TheirLabel>> \o body \o <<MyLabel>> \o reply
NewThreadPrepended(original_email, body, reply) ==
    <<TheirLabel>> \o body \o <<MyLabel>> \o reply \o original_email
NewThread(original_email, body, reply) ==
    original_email \o <<TheirLabel>> \o body \o <<MyLabel>> \o reply

\* f"Re: {subject}" if not subject.startswith('Re:') else subject
ReplySubjectAnyCase(subject) ==
    IF StartsWith(Lower(subject), <<"r", "e", ":">>)
    THEN subject
    ELSE <<"R", "e", ":", " ">> \o subject
ReplySubject(subject) ==
    IF StartsWith(subject, <<"R", "e", ":">>)
    THEN subject
    ELSE <<"R", "e", ":", " ">> \o subject

(* ------------------------------ inputs --------------------------------- *)
\* what the inbox receives: an ordinary reply, a reply whose From differs in
\* letter case and whose subject already starts with "Re:", and a reply
\* without a Subject header
InboundMessages ==
    { [from_email |-> AddrLower, subject |-> SubjDemo, body |-> BodyMore],
      [from_email |-> AddrUpper, subject |-> SubjReDemo, body |-> BodyStop],
      [from_email |-> AddrLower, subject |-> None, body |-> BodyStop] }

\* JSON bodies posted to /webhook/email-reply; data.get() gives None for a
\* missing key; one subject starts with "re:" in lower case; one body holds a
\* line that reads like the label handle_reply writes before its own replies
WebhookPayloads ==
    { [from_email |-> AddrLower, subject |-> SubjDemo, body |-> BodyStop],
      [from_email |-> AddrLower, subject |-> SubjLowerRe, body |-> BodyStop],
      [from_email |-> AddrUpper, subject |-> SubjReDemo, body |-> BodyMore],
      [from_email |-> AddrOther, subject |-> SubjDemo, body |-> BodyQuoting],
      [from_email |-> None, subject |-> SubjDemo, body |-> BodyMore] }

RecipientAddrs == {AddrUpper, AddrSpace}

RECURSIVE ListsUpTo(_, _)
ListsUpTo(S, n) ==
    IF n = 0 THEN {<<>>}
    ELSE LET shorter == ListsUpTo(S, n - 1)
         IN shorter \cup {Append(l, x) : l \in {m \in shorter : Len(m) = n - 1}, x \in S}

RecipientLists == ListsUpTo(RecipientAddrs, MaxRecipients)
RecipientListsAlone == ListsUpTo(RecipientAddrs, MaxRecipientsAlone)

(* ------------------------------- state --------------------------------- *)
VARIABLES
    mode,             \* sys.argv[1]: "webhook" runs the Flask server, else main()
    conversations,    \* sdr.conversations of the SimpleSDR that main() creates
    whConversations,  \* per request: conversations of the SimpleSDR the route creates
    history,          \* per key: the thread last stored for it in this process
    handler,          \* the handle_reply activation of each calling context
    mailbox,          \* the IMAP inbox: messages in arrival order, with \Seen
    handed,           \* per message: how often it was passed to handle_reply
    mon,              \* the monitor thread: position in check_for_replies, and
                      \* the follow-ups sent for messages of the current cycle
    faults,           \* IMAP exceptions raised so far
    web,              \* the webhook route: request in progress, response
    camp              \* run_cold_email_campaign: position and locals

vars == <<mode, conversations, whConversations, history, handler, mailbox, handed,
          mon, faults, web, camp>>

storeVars == <<conversations, whConversations, history>>
mailVars == <<mailbox, handed, mon, faults>>

\* the request threads of the Flask server
Requests == {"w1", "w2"}
\* the contexts that call handle_reply: the monitor thread and the requests
Ctx == {"mon"} \cup Requests

IdleCall ==
    [pc |-> "idle", from_email |-> <<>>, subject |-> <<>>, body |-> <<>>,
     conversation_key |-> <<>>, original_email |-> <<>>, reply |-> <<>>,
     reply_subject |-> <<>>, sent_body |-> <<>>, success |-> FALSE, sends |-> 0]

\* entry of handle_reply(from_email, subject, body)
NewCall(m) ==
    [IdleCall EXCEPT !.pc = "read", !.from_email = m.from_email,
                     !.subject = m.subject, !.body = m.body]

IdleCampaign ==
    [pc |-> "idle", recipients |-> <<>>, i |-> 1, emails |-> <<>>,
     best_email |-> <<>>, subject |-> <<>>, sent_body |-> <<>>,
     success |-> FALSE, attempts |-> <<>>]

Init ==
    /\ mode \in {"main", "webhook"}
    /\ conversations = EmptyStore
    /\ whConversations = [w \in Requests |-> EmptyStore]
    /\ history = EmptyStore
    /\ handler = [c \in Ctx |-> IdleCall]
    /\ mailbox = <<>>
    /\ handed = <<>>
    /\ mon = [pc |-> "off", pending |-> <<>>, answered |-> <<>>]
    /\ faults = 0
    /\ web = [w \in Requests |-> [pc |-> "idle", status |-> 0]]
    /\ camp = IdleCampaign

\* the store the activation in context c works on
Store(c) == IF c = "mon" THEN conversations ELSE whConversations[c]

(* ----------------------------- handle_reply ---------------------------- *)
\* lines 303-304: from_email.lower() raises AttributeError on None
H_Read(c) ==
    /\ handler[c].pc = "read"
    /\ LET h == handler[c] IN
       IF h.from_email = None
       THEN handler' = [handler EXCEPT ![c].pc = "raised"]
       ELSE handler' = [handler EXCEPT
                ![c].conversation_key = Key(h.from_email),
                ![c].original_email = Get(Store(c), Key(h.from_email)),
                ![c].pc = "gen"]
    /\ UNCHANGED <<mode, storeVars, mailVars, web, camp>>

\* line 307
H_Generate(c) ==
    /\ handler[c].pc = "gen"
    /\ \E r \in generate_reply(handler[c].original_email, handler[c].body) :
           handler' = [handler EXCEPT ![c].reply = r, ![c].pc = "send"]
    /\ UNCHANGED <<mode, storeVars, mailVars, web, camp>>

\* lines 310-311: subject.startswith raises AttributeError on None;
\* send_email_smtp returns True or False and never raises
H_Send(c) ==
    /\ handler[c].pc = "send"
    /\ LET h == handler[c] IN
       IF h.subject = None
       THEN handler' = [handler EXCEPT ![c].pc = "raised"]
       ELSE \E ok \in BOOLEAN :
                handler' = [handler EXCEPT
                    ![c].reply_subject = ReplySubject(h.subject),
                    ![c].sent_body = h.reply,
                    ![c].success = ok,
                    ![c].sends = h.sends + 1,
                    ![c].pc = "update"]
    /\ UNCHANGED <<mode, storeVars, mailVars, web, camp>>

\* the store after lines 313-318
UpdatedAlways(h, store) ==
    Put(store, h.conversation_key, NewThread(h.original_email, h.body, h.reply))
Updated(h, store) ==
    IF h.success
    THEN Put(store, h.conversation_key, NewThread(h.original_email, h.body, h.reply))
    ELSE store

H_Update(c) ==
    /\ handler[c].pc = "update"
    /\ IF c = "mon"
       THEN /\ conversations' = Updated(handler[c], conversations)
            /\ UNCHANGED whConversations
       ELSE /\ whConversations' = [whConversations EXCEPT ![c] = Updated(handler[c], @)]
            /\ UNCHANGED conversations
    /\ history' = Updated(handler[c], history)
    /\ handler' = [handler EXCEPT ![c].pc = "done"]
    /\ UNCHANGED <<mode, mailVars, web, camp>>

(* ------------------ check_for_replies / monitor thread ----------------- *)
RECURSIVE UnseenFrom(_, _)
UnseenFrom(mb, i) ==
    IF i > Len(mb) THEN <<>>
    ELSE IF mb[i].seen THEN UnseenFrom(mb, i + 1)
    ELSE <<i>> \o UnseenFrom(mb, i + 1)

RECURSIVE Reverse(_)
Reverse(s) == IF s = <<>> THEN <<>> ELSE Reverse(Tail(s)) \o <<Head(s)>>

\* mail.search(None, 'UNSEEN'): the ids of the unseen messages, in order
UnseenNewestFirst(mb) == Reverse(UnseenFrom(mb, 1))
UnseenNotYetFetched(mb) == SelectSeq(UnseenFrom(mb, 1), LAMBDA i : handed[i] = 0)
Unseen(mb) == UnseenFrom(mb, 1)

\* a message reaches the inbox of the account main() monitors
Arrive ==
    /\ mode = "main"
    /\ Len(mailbox) < MaxMsgs
    /\ \E m \in InboundMessages :
           mailbox' = Append(mailbox, [from_email |-> m.from_email,
                                       subject |-> m.subject, body |-> m.body,
                                       seen |-> FALSE])
    /\ handed' = Append(handed, 0)
    /\ UNCHANGED <<mode, storeVars, handler, mon, faults, web, camp>>

\* lines 381-397: start_reply_monitoring starts the thread
M_Start ==
    /\ mode = "main"
    /\ mon.pc = "off"
    /\ mon' = [mon EXCEPT !.pc = "connect"]
    /\ UNCHANGED <<mode, storeVars, handler, mailbox, handed, faults, web, camp>>

\* lines 384-387: time.sleep(60) returns and the loop calls check_for_replies
M_Wake ==
    /\ mon.pc = "sleep"
    /\ mon' = [mon EXCEPT !.pc = "connect"]
    /\ UNCHANGED <<mode, storeVars, handler, mailbox, handed, faults, web, camp>>

\* lines 248-255: connect, login, select, search; the search answers OK with
\* the unseen ids, or not OK, or a step raises
M_Search ==
    /\ mon.pc = "connect"
    /\ \/ /\ mon' = [pc |-> "loop", pending |-> Unseen(mailbox), answered |-> <<>>]
          /\ UNCHANGED faults
       \/ /\ mon' = [pc |-> "close", pending |-> <<>>, answered |-> <<>>]
          /\ UNCHANGED faults
       \/ /\ faults < MaxFaults
          /\ faults' = faults + 1
          /\ mon' = [pc |-> "except", pending |-> <<>>, answered |-> <<>>]
    /\ UNCHANGED <<mode, storeVars, handler, mailbox, handed, web, camp>>

\* lines 256-280: next msg_id, fetch (OK: parse and call handle_reply; not OK:
\* skip the message; or the fetch raises); after the last id, line 285
\* The \Seen flag of a message is set where the code sets it, at line 283;
\* the fetch itself is taken to leave the flags of the inbox as they are.
M_Fetch ==
    /\ mon.pc = "loop"
    /\ IF mon.pending = <<>>
       THEN /\ mon' = [mon EXCEPT !.pc = "close"]
            /\ UNCHANGED <<handler, handed, faults>>
       ELSE LET id == Head(mon.pending) IN
            \/ /\ handler' = [handler EXCEPT !["mon"] = NewCall(mailbox[id])]
               /\ handed' = [handed EXCEPT
                     ![id] = IF @ < MaxHanded THEN @ + 1 ELSE @]
               /\ mon' = [mon EXCEPT !.pc = "handle"]
               /\ UNCHANGED faults
            \/ /\ mon' = [mon EXCEPT !.pending = Tail(@)]
               /\ UNCHANGED <<handler, handed, faults>>
            \/ /\ faults < MaxFaults
               /\ faults' = faults + 1
               /\ mon' = [mon EXCEPT !.pc = "except"]
               /\ UNCHANGED <<handler, handed>>
    /\ UNCHANGED <<mode, storeVars, mailbox, web, camp>>

\* line 283: mail.store(msg_id, '+FLAGS', '\\Seen') after handle_reply
\* returned, or the store command raises
M_Mark ==
    /\ mon.pc = "handle"
    /\ handler["mon"].pc = "done"
    /\ \/ /\ mailbox' = [mailbox EXCEPT ![Head(mon.pending)].seen = TRUE]
          /\ mon' = [pc |-> "loop", pending |-> Tail(mon.pending),
                     answered |->
                         IF handler["mon"].success
                         THEN Append(mon.answered,
                                     [id |-> Head(mon.pending),
                                      reply |-> handler["mon"].sent_body])
                         ELSE mon.answered]
          /\ UNCHANGED faults
       \/ /\ faults < MaxFaults
          /\ faults' = faults + 1
          /\ mon' = [mon EXCEPT !.pc = "except"]
          /\ UNCHANGED mailbox
    /\ handler' = [handler EXCEPT !["mon"] = IdleCall]
    /\ UNCHANGED <<mode, storeVars, handed, web, camp>>

\* lines 285-287 and 387: close, logout, return, sleep
M_Close ==
    /\ mon.pc = "close"
    /\ mon' = [pc |-> "sleep", pending |-> <<>>, answered |-> <<>>]
    /\ UNCHANGED <<mode, storeVars, handler, mailbox, handed, faults, web, camp>>

\* where the monitor thread continues after check_for_replies caught an
\* exception (lines 288-289, then line 387)
AfterExceptStops == "stopped"
AfterExcept == "sleep"

\* lines 288-289: an exception of any step of the cycle, handle_reply included
M_Except ==
    /\ \/ mon.pc = "except"
       \/ mon.pc = "handle" /\ handler["mon"].pc = "raised"
    /\ mon' = [pc |-> AfterExcept, pending |-> <<>>, answered |-> <<>>]
    /\ handler' = [handler EXCEPT !["mon"] = IdleCall]
    /\ UNCHANGED <<mode, storeVars, mailbox, handed, faults, web, camp>>

(* --------------------------- webhook route ----------------------------- *)
\* lines 410-421: parse the JSON body, sdr = SimpleSDR(), sdr.handle_reply(...)
W_Request(w) ==
    /\ mode = "webhook"
    /\ web[w].pc # "handling"
    /\ \E p \in WebhookPayloads :
           handler' = [handler EXCEPT ![w] = NewCall(p)]
    /\ whConversations' = [whConversations EXCEPT ![w] = EmptyStore]
    /\ web' = [web EXCEPT ![w] = [pc |-> "handling", status |-> 0]]
    /\ UNCHANGED <<mode, conversations, history, mailVars, camp>>

\* line 423
W_Success(w) ==
    /\ web[w].pc = "handling"
    /\ handler[w].pc = "done"
    /\ web' = [web EXCEPT ![w] = [pc |-> "responded", status |-> 200]]
    /\ UNCHANGED <<mode, storeVars, handler, mailVars, camp>>

\* lines 425-427
W_Error(w) ==
    /\ web[w].pc = "handling"
    /\ handler[w].pc = "raised"
    /\ web' = [web EXCEPT ![w] = [pc |-> "responded", status |-> 500]]
    /\ UNCHANGED <<mode, storeVars, handler, mailVars, camp>>

(* ------------------------ run_cold_email_campaign ---------------------- *)
Recipient == camp.recipients[camp.i]

\* line 330: the call, with its recipient list
C_Start(lists) ==
    /\ mode = "main"
    /\ camp.pc = "idle"
    /\ \E rs \in lists :
           camp' = [IdleCampaign EXCEPT
                       !.recipients = rs,
                       !.pc = IF rs = <<>> THEN "done" ELSE "gen"]
    /\ UNCHANGED <<mode, storeVars, handler, mailVars, web>>

\* lines 338-341: one persona per step, in the order of the list
C_Generate ==
    /\ camp.pc = "gen"
    /\ \E e \in generate_cold_email(Personas[Len(camp.emails) + 1]) :
           camp' = [camp EXCEPT
                       !.emails = Append(@, e),
                       !.pc = IF Len(camp.emails) + 1 = Len(Personas)
                              THEN "select" ELSE "gen"]
    /\ UNCHANGED <<mode, storeVars, handler, mailVars, web>>

\* line 345 (the list of drafts is not read again)
C_Select ==
    /\ camp.pc = "select"
    /\ \E b \in select_best_email(camp.emails) :
           camp' = [camp EXCEPT !.best_email = b, !.emails = <<>>, !.pc = "subject"]
    /\ UNCHANGED <<mode, storeVars, handler, mailVars, web>>

\* lines 348-359
C_Subject ==
    /\ camp.pc = "subject"
    /\ \E s \in generate_subject(camp.best_email) :
           camp' = [camp EXCEPT !.subject = s, !.pc = "send"]
    /\ UNCHANGED <<mode, storeVars, handler, mailVars, web>>

\* line 365: one call of send_email_smtp(recipient, subject, best_email), which
\* returns True or False (the subject is not read again)
C_Send ==
    /\ camp.pc = "send"
    /\ \E ok \in BOOLEAN :
           camp' = [camp EXCEPT
                       !.success = ok,
                       !.sent_body = camp.best_email,
                       !.attempts = Append(@, Recipient),
                       !.subject = <<>>,
                       !.pc = "seed"]
    /\ UNCHANGED <<mode, storeVars, handler, mailVars, web>>

\* the store after lines 367-372
SeededAlways(c, store) == Put(store, Key(c.recipients[c.i]), c.best_email)
Seeded(c, store) ==
    IF c.success
    THEN Put(store, Key(c.recipients[c.i]), c.best_email)
    ELSE store

C_Seed ==
    /\ camp.pc = "seed"
    /\ conversations' = Seeded(camp, conversations)
    /\ history' = Seeded(camp, history)
    /\ camp' = [camp EXCEPT !.pc = "sleep"]
    /\ UNCHANGED <<mode, whConversations, handler, mailVars, web>>

\* line 330: the for loop goes on with the next element of the list, whether
\* or not the send succeeded
StopOnFailure(c) == IF c.success THEN c.i + 1 ELSE Len(c.recipients) + 1
NextRecipient(c) == c.i + 1

\* line 376, then the next recipient or line 378
C_Sleep ==
    /\ camp.pc = "sleep"
    /\ camp' = [IdleCampaign EXCEPT
                   !.recipients = camp.recipients,
                   !.attempts = camp.attempts,
                   !.i = NextRecipient(camp),
                   !.pc = IF NextRecipient(camp) > Len(camp.recipients)
                          THEN "done" ELSE "gen"]
    /\ UNCHANGED <<mode, storeVars, handler, mailVars, web>>

(* --------------------------- specifications ---------------------------- *)
MonitorStep ==
    \/ M_Wake \/ M_Search \/ M_Fetch \/ M_Mark \/ M_Close \/ M_Except
    \/ H_Read("mon") \/ H_Generate("mon") \/ H_Send("mon") \/ H_Update("mon")

Next ==
    \/ Arrive
    \/ M_Start \/ M_Wake \/ M_Search \/ M_Fetch \/ M_Mark \/ M_Close \/ M_Except
    \/ \E c \in Ctx : H_Read(c)
    \/ \E c \in Ctx : H_Generate(c)
    \/ \E c \in Ctx : H_Send(c)
    \/ \E c \in Ctx : H_Update(c)
    \/ \E w \in Requests : W_Request(w)
    \/ \E w \in Requests : W_Success(w)
    \/ \E w \in Requests : W_Error(w)
    \/ C_Start(RecipientLists) \/ C_Generate \/ C_Select \/ C_Subject \/ C_Send \/ C_Seed \/ C_Sleep

\* either way of starting the program (lines 529-538)
Spec == Init /\ [][Next]_vars

\* the monitor thread and its inbox alone: main() as it is written, with the
\* campaign call commented out (line 506)
MonitorNext == Arrive \/ M_Start \/ MonitorStep

MonitorInit == Init /\ mode = "main"

MonitorSpec == MonitorInit /\ [][MonitorNext]_vars

\* the thread is scheduled again and again, and every IMAP, SMTP and model
\* call it makes returns or raises
MonitorLive == MonitorInit /\ [][MonitorNext]_vars /\ WF_vars(MonitorStep)

\* the campaign alone: run_cold_email_campaign awaited by main() before the
\* monitor thread is started (lines 506-509), so nothing else touches the store
CampaignStep ==
    \/ C_Generate \/ C_Select \/ C_Subject \/ C_Send \/ C_Seed \/ C_Sleep

CampaignNext == C_Start(RecipientListsAlone) \/ CampaignStep

CampaignInit == Init /\ mode = "main"

\* the event loop resumes the coroutine after every await, and every model
\* and SMTP call returns or raises
CampaignLive == CampaignInit /\ [][CampaignNext]_vars /\ WF_vars(CampaignStep)

(* ------------------------------- claims -------------------------------- *)
\* context c takes a step of handle_reply
Moves(c) ==
    /\ handler[c].pc \in {"read", "gen", "send", "update"}
    /\ handler'[c] # handler[c]

\* context c takes the step of lines 313-318
Updates(c) == handler[c].pc = "update" /\ handler'[c].pc = "done"

\* C1: when the follow-up send returned false, no step of that handle_reply
\* call changes a conversation store: no entry is created and none is changed,
\* for that address or any other.
C1_FailedSendLeavesStore ==
    [][\A c \in Ctx :
          (Moves(c) /\ ~(handler[c].pc = "update" /\ handler[c].success))
              => /\ conversations' = conversations
                 /\ whConversations' = whConversations]_vars

C1_Witness ==
    /\ handler["mon"].pc = "done"
    /\ handler["mon"].sends = 1
    /\ ~handler["mon"].success
    /\ handler["mon"].conversation_key \in DOMAIN conversations

\* C2: a handle_reply call whose send succeeded has called send exactly once,
\* and its update stores, under the lower-cased sender address, the thread it
\* read (empty if there was none), then the "their reply" label and the body,
\* then the "my reply" label and the text that was sent; all other entries
\* stay as they were.  The thread it read is the entry the store held for the
\* lower-cased address at the time of the read.
C2_SuccessfulReplyAppends ==
    [][\A c \in Ctx :
          LET h == handler[c]
              old == IF c = "mon" THEN conversations ELSE whConversations[c]
              new == IF c = "mon" THEN conversations' ELSE whConversations'[c]
          IN /\ (Updates(c) /\ h.success) =>
                   /\ h.sends = 1
                   /\ DOMAIN new = DOMAIN old \cup {Lower(h.from_email)}
                   /\ new[Lower(h.from_email)] =
                        h.original_email \o <<TheirLabel>> \o h.body
                            \o <<MyLabel>> \o h.sent_body
                   /\ \A k \in DOMAIN old : k # Lower(h.from_email) => new[k] = old[k]
             /\ (h.pc = "read" /\ handler'[c].pc = "gen") =>
                   handler'[c].original_email =
                       IF Lower(h.from_email) \in DOMAIN old
                       THEN old[Lower(h.from_email)] ELSE <<>>]_vars

C2_Witness ==
    /\ handler["mon"].pc = "done"
    /\ handler["mon"].success
    /\ handler["mon"].original_email # <<>>
    /\ Cardinality(DOMAIN conversations) >= 2
    /\ Len(conversations[handler["mon"].conversation_key])
          = Len(handler["mon"].original_email) + 4

Count(text, token) == Cardinality({i \in 1..Len(text) : text[i] = token})

\* the stores of the process
Stores == {conversations} \cup {whConversations[w] : w \in Requests}

\* C3: when two handle_reply calls for the same address have both sent their
\* follow-up and finished, some conversation store of the process holds for
\* that address a thread with both exchanges: both inbound bodies and both
\* follow-ups.
C3_NoLostReply ==
    \A c, d \in Ctx :
        (/\ c # d
         /\ handler[c].pc = "done" /\ handler[c].success
         /\ handler[d].pc = "done" /\ handler[d].success
         /\ handler[c].conversation_key = handler[d].conversation_key)
        => \E store \in Stores :
              LET thread == Get(store, handler[c].conversation_key) IN
              /\ Count(thread, TheirLabel) >= 2
              /\ {handler[c].body[1], handler[d].body[1]} \subseteq Range(thread)
              /\ {handler[c].reply[1], handler[d].reply[1]} \subseteq Range(thread)

\* C4: the monitor's handle_reply never stores a thread built from a prior
\* value that is no longer the entry of that address: the entry it read is
\* still the entry when it writes, so a campaign seed made in between is not
\* overwritten.
C4_NoStaleWrite ==
    [][(Updates("mon") /\ handler["mon"].success)
          => handler["mon"].original_email
                = Get(conversations, handler["mon"].conversation_key)]_vars

\* C5: no inbound message is handed to handle_reply more than once.
C5_AtMostOnce == \A i \in 1..Len(handed) : handed[i] <= 1

\* C6: the monitor thread never stops: a cycle that raised (in an IMAP step or
\* in handle_reply) and a cycle that ended normally both lead to the sleep,
\* and the sleep leads to the next poll.
C6_MonitorKeepsPolling ==
    /\ (mon.pc \in {"except", "close"}) ~> (mon.pc = "sleep")
    /\ (mon.pc = "handle" /\ handler["mon"].pc = "raised") ~> (mon.pc = "sleep")
    /\ (mon.pc = "sleep") ~> (mon.pc = "connect")
    /\ [](mon.pc \in {"off", "connect", "loop", "handle", "close", "except", "sleep"})

C6_Witness == faults = 1 /\ mon.pc = "connect" /\ Len(mailbox) > 0

\* C7: on either path, handle_reply reads as prior thread the thread that the
\* earlier campaign sends and replies of the process left for that address.
C7_ReadsWhatWasStored ==
    [][\A c \in Ctx :
          (handler[c].pc = "read" /\ handler'[c].pc = "gen")
              => handler'[c].original_email
                    = Get(history, handler'[c].conversation_key)]_vars

\* C8 as claimed: every write to an entry of the store extends the text the
\* entry held before, and no entry disappears.
C8_AppendOnly ==
    [][\A k \in DOMAIN conversations :
          /\ k \in DOMAIN conversations'
          /\ IsPrefix(conversations[k], conversations'[k])]_vars

\* C8 as amended: every write of handle_reply stores a text that begins with
\* the prior thread this call read for the address and continues with the two
\* new segments (nothing of the text it read is removed or reordered), and it
\* removes no entry; a campaign seed stores the sent draft in place of the
\* entry, whatever the entry held.
C8_ReplyExtendsWhatItRead ==
    [][/\ \A c \in Ctx :
            LET new == IF c = "mon" THEN conversations' ELSE whConversations'[c]
                key == handler[c].conversation_key
            IN (Updates(c) /\ handler[c].success) =>
                  /\ IsPrefix(handler[c].original_email, new[key])
                  /\ Len(new[key]) > Len(handler[c].original_email)
       /\ (camp.pc = "seed" /\ camp'.pc = "sleep" /\ camp.success) =>
             conversations'[Lower(Recipient)] = camp.best_email
       /\ DOMAIN conversations \subseteq DOMAIN conversations']_vars

C8_Witness ==
    \E k \in DOMAIN conversations :
        /\ Count(conversations[k], MyLabel) = 2
        /\ conversations[k][1] \notin {TheirLabel, MyLabel}

\* letters that differ only in case
CasePairs == {<<"a", "A">>, <<"b", "B">>, <<"c", "C">>, <<"d", "D">>}

SameButCase(a, b) ==
    /\ Len(a) = Len(b)
    /\ \A i \in 1..Len(a) :
          a[i] = b[i] \/ <<a[i], b[i]>> \in CasePairs \/ <<b[i], a[i]>> \in CasePairs

\* C9: handle_reply reads, for a sender address, the thread stored under any
\* address that differs from it only in letter case; and after the campaign
\* stored a draft for a recipient, the store holds that draft under an
\* address that differs from the recipient only in letter case.
C9_CaseInsensitiveLookup ==
    [][/\ \A c \in Ctx :
            LET old == IF c = "mon" THEN conversations ELSE whConversations[c] IN
            (handler[c].pc = "read" /\ handler'[c].pc = "gen") =>
                \A k \in DOMAIN old :
                    SameButCase(k, handler[c].from_email)
                        => handler'[c].original_email = old[k]
       /\ (camp.pc = "seed" /\ camp'.pc = "sleep" /\ camp.success) =>
             \A a \in {AddrLower, AddrUpper} :
                 SameButCase(a, Recipient) =>
                     \E k \in DOMAIN conversations' :
                         /\ SameButCase(k, a)
                         /\ k = Lower(a)
                         /\ conversations'[k] = camp.best_email]_vars

C9_Witness ==
    /\ handler["mon"].pc = "gen"
    /\ handler["mon"].from_email = AddrLower
    /\ camp.recipients = <<AddrUpper>>
    /\ camp.pc = "sleep"
    /\ camp.success
    /\ handler["mon"].original_email = camp.best_email

RECURSIVE LStrip(_)
LStrip(s) == IF s # <<>> /\ Head(s) = " " THEN LStrip(Tail(s)) ELSE s

RECURSIVE RStrip(_)
RStrip(s) ==
    IF s # <<>> /\ s[Len(s)] = " " THEN RStrip(SubSeq(s, 1, Len(s) - 1)) ELSE s

\* the normalized address of the data model: lower-cased and trimmed
Normalized(addr) == Lower(LStrip(RStrip(addr)))

\* C10: the store never holds two entries whose addresses have the same
\* normalized form (lower-cased and trimmed).
C10_OneEntryPerNormalizedAddress ==
    \A k1, k2 \in DOMAIN conversations :
        Normalized(k1) = Normalized(k2) => k1 = k2

\* the campaign takes the step of lines 367-372
Seeds == camp.pc = "seed" /\ camp'.pc = "sleep"

\* C11: when the campaign's send for a recipient succeeded, the store entry
\* under the recipient's lower-cased address is afterwards exactly the draft
\* that was selected and sent, whatever was stored there before, and no other
\* entry changes; when the send failed the store is left as it was.  A list
\* of one recipient, a successful send and no reply traffic leave a store of
\* exactly one entry.
C11_CampaignSeeding ==
    [][Seeds =>
          LET k == Lower(camp.recipients[camp.i]) IN
          IF camp.success
          THEN /\ camp.sent_body = camp.best_email
               /\ DOMAIN conversations' = DOMAIN conversations \cup {k}
               /\ conversations'[k] = camp.sent_body
               /\ \A j \in DOMAIN conversations \ {k} :
                      conversations'[j] = conversations[j]
               /\ (Len(camp.recipients) = 1 /\ mon.pc = "off")
                      => DOMAIN conversations' = {k}
          ELSE conversations' = conversations]_vars

\* a draft was seeded over the thread of a reply from the same address that
\* the monitor had handled before
C11_Witness ==
    /\ camp.pc = "sleep"
    /\ camp.success
    /\ conversations[Lower(camp.recipients[camp.i])] = camp.best_email
    /\ \E i \in 1..Len(mailbox) :
           /\ mailbox[i].seen
           /\ Lower(mailbox[i].from_email) = Lower(camp.recipients[camp.i])
    /\ mon.pc = "sleep"
    /\ faults = 0

\* C12: the campaign calls the send once per element of the recipient list,
\* in list order (the addresses sent to so far are always a prefix of the
\* list); a failed send is neither repeated nor a reason to stop, so when the
\* campaign is over the addresses sent to are exactly the list; and a campaign
\* that was started comes to its end.
C12_CampaignCompletes ==
    /\ [](IsPrefix(camp.attempts, camp.recipients))
    /\ [](camp.pc = "done" => camp.attempts = camp.recipients)
    /\ (camp.pc # "idle" ~> camp.pc = "done")

\* a campaign of two recipients is over; the send to the first one failed
\* (nothing was stored for it) and the second one was sent to all the same
C12_Witness ==
    /\ camp.pc = "done"
    /\ camp.recipients = <<AddrUpper, AddrSpace>>
    /\ camp.attempts = camp.recipients
    /\ DOMAIN conversations = {Key(AddrSpace)}

\* C13: whatever the model answers, select_best_email returns one of the
\* three drafts it was given, so the body the campaign sends and stores is one
\* of the drafts generated for the recipient.
C13_SelectsACandidate ==
    [][(camp.pc = "select" /\ camp'.pc = "subject")
          => camp'.best_email \in Range(camp.emails)]_vars

\* the texts a model call can answer with, per call site
ModelEmails == {ModelEmail(Personas[k]) : k \in 1..Len(Personas)}

\* C14: a failing model call never ends a campaign iteration or a
\* handle_reply call: the step after generate_cold_email is the next draft or
\* the selection, the step after select_best_email is the subject, the step
\* after the subject is the send, and the step after generate_reply is the
\* send; a result that is not an answer of the model is the fixed fallback
\* text of that call (the first draft, for the selection), and it is not empty.
C14_GenerationNeverRaises ==
    [][/\ (camp.pc = "gen" /\ camp' # camp) =>
            /\ camp'.pc = IF Len(camp.emails) = 2 THEN "select" ELSE "gen"
            /\ Len(camp'.emails) = Len(camp.emails) + 1
            /\ LET e == camp'.emails[Len(camp'.emails)] IN
                   /\ e # <<>>
                   /\ e \notin ModelEmails => e = FallbackEmail
       /\ (camp.pc = "select" /\ camp' # camp) =>
            /\ camp'.pc = "subject"
            /\ camp'.best_email # <<>>
            /\ camp'.best_email \notin ModelSelections(camp.emails)
                   => camp'.best_email = camp.emails[1]
       /\ (camp.pc = "subject" /\ camp' # camp) =>
            /\ camp'.pc = "send"
            /\ camp'.subject # <<>>
            /\ camp'.subject # ModelSubject => camp'.subject = FallbackSubject
       /\ \A c \in Ctx :
            (handler[c].pc = "gen" /\ handler'[c] # handler[c]) =>
                /\ handler'[c].pc = "send"
                /\ handler'[c].reply # <<>>
                /\ handler'[c].reply # ModelReply
                       => handler'[c].reply = FallbackReply]_vars

\* every model call of a campaign iteration and of a handle_reply call failed,
\* and both reached their send with the fallback texts
C14_Witness ==
    /\ camp.pc = "seed"
    /\ camp.sent_body = FallbackEmail
    /\ handler["mon"].pc = "update"
    /\ handler["mon"].sent_body = FallbackReply

\* C15: the subject of a follow-up is the inbound subject itself when that
\* starts with the three characters R, e, colon in exactly this case, and the
\* inbound subject with "Re: " put in front of it otherwise: "Demo" gives
\* "Re: Demo", "Re: Demo" stays "Re: Demo", and applying the rule to its own
\* result changes nothing.
C15_ReplySubjectRule ==
    [][\A c \in Ctx :
          (handler[c].pc = "send" /\ handler'[c].pc = "update") =>
              LET s == handler[c].subject
                  r == handler'[c].reply_subject
              IN  /\ IF Len(s) >= 3 /\ s[1] = "R" /\ s[2] = "e" /\ s[3] = ":"
                     THEN r = s
                     ELSE r = <<"R", "e", ":", " ">> \o s
                  /\ s = SubjDemo => r = SubjReDemo
                  /\ s = SubjReDemo => r = SubjReDemo
                  /\ ReplySubject(r) = r]_vars

\* a reply whose subject starts with "re:" in lower case was answered, and
\* the prefix was added
C15_Witness ==
    \E c \in Ctx :
        /\ handler[c].pc = "update"
        /\ handler[c].subject = SubjLowerRe
        /\ handler[c].reply_subject = <<"R", "e", ":", " ">> \o SubjLowerRe

\* C16: the webhook answers 200 with status "success" only for a request
\* whose follow-up was sent; a request whose send returned False is answered
\* with an error, as is one whose handler raised.
C16_SuccessOnlyWhenSent ==
    \A w \in Requests :
        web[w].pc = "responded" =>
            (web[w].status = 200 <=> handler[w].success)

\* the campaign step that generates the draft of one persona
Drafts(persona) ==
    \E e \in generate_cold_email(persona) : camp'.emails = Append(camp.emails, e)

\* C17: for each recipient the campaign takes its steps in this order and no
\* other: the professional, the engaging and the concise draft, the selection,
\* the subject, one send, the store update (which changes the store only
\* after a successful send), the wait.  The recipient changes only after the
\* wait, the wait follows every send, failed or not and also the last one, and
\* the campaign is over only after the wait of the last recipient.
C17_StepOrder ==
    [][camp' # camp =>
          /\ \/ /\ camp.pc = "idle"
                /\ camp'.pc = IF camp'.recipients = <<>> THEN "done" ELSE "gen"
             \/ /\ camp.pc = "gen" /\ Len(camp.emails) = 0
                /\ Drafts("professional") /\ camp'.pc = "gen"
             \/ /\ camp.pc = "gen" /\ Len(camp.emails) = 1
                /\ Drafts("engaging") /\ camp'.pc = "gen"
             \/ /\ camp.pc = "gen" /\ Len(camp.emails) = 2
                /\ Drafts("concise") /\ camp'.pc = "select"
             \/ camp.pc = "select" /\ camp'.pc = "subject"
             \/ camp.pc = "subject" /\ camp'.pc = "send"
             \/ /\ camp.pc = "send" /\ camp'.pc = "seed"
                /\ Len(camp'.attempts) = Len(camp.attempts) + 1
             \/ camp.pc = "seed" /\ camp'.pc = "sleep"
             \/ /\ camp.pc = "sleep"
                /\ camp'.pc = IF camp.i = Len(camp.recipients) THEN "done" ELSE "gen"
                /\ camp'.i = camp.i + 1
          /\ camp.pc # "send" => camp'.attempts = camp.attempts
          /\ camp.pc # "sleep" => camp'.i = camp.i
          /\ camp.pc # "idle" => camp'.recipients = camp.recipients
          /\ conversations' # conversations => (camp.pc = "seed" /\ camp.success)
          /\ camp'.pc = "done" =>
                 \/ camp.recipients = <<>>
                 \/ camp.pc = "sleep" /\ camp.i = Len(camp.recipients)]_vars

\* the campaign waits after the send to the last of two recipients, which
\* failed, while the send to the first one had succeeded
C17_Witness ==
    /\ camp.pc = "sleep"
    /\ Len(camp.recipients) = 2
    /\ camp.i = 2
    /\ ~camp.success
    /\ DOMAIN conversations = {Key(camp.recipients[1])}

\* the exchange of message a.id as handle_reply appends it to a thread
Exchange(a) == <<TheirLabel>> \o mailbox[a.id].body \o <<MyLabel>> \o a.reply

\* the exchanges of the follow-ups in list l that went to address key k, one
\* after the other
RECURSIVE Exchanges(_, _)
Exchanges(l, k) ==
    IF l = <<>> THEN <<>>
    ELSE IF Key(mailbox[Head(l).id].from_email) = k
         THEN Exchange(Head(l)) \o Exchanges(Tail(l), k)
         ELSE Exchanges(Tail(l), k)

IsSuffix(x, t) ==
    Len(x) <= Len(t) /\ SubSeq(t, Len(t) - Len(x) + 1, Len(t)) = x

C19_FailedSendNotRetried ==
    /\ [][(/\ mon.pc = "handle"
            /\ handler["mon"].pc = "done"
            /\ ~handler["mon"].success
            /\ mon' # mon)
              => /\ handler["mon"].sends = 1
                 /\ mailbox'[Head(mon.pending)].seen]_vars
    /\ [](\A i \in Range(mon.pending) : ~mailbox[i].seen)

\* check_for_replies catches an exception (lines 288-289)
Aborts ==
    /\ \/ mon.pc = "except"
       \/ mon.pc = "handle" /\ handler["mon"].pc = "raised"
    /\ mon' # mon

\* C20: when handle_reply or an IMAP step raises while a poll cycle works on
\* message m, the cycle ends there: nothing more is fetched or handled, m and
\* the messages after m are left unseen, the messages answered before m stay
\* seen and the store keeps what their calls wrote; and the next poll whose
\* search is answered returns every unseen message, m and its successors
\* among them.
C20_AbortedCycle ==
    [][/\ Aborts =>
            /\ mon'.pc = "sleep"
            /\ mon'.pending = <<>>
            /\ handler'["mon"].pc = "idle"
            /\ \A j \in Range(mon.pending) : ~mailbox'[j].seen
            /\ \A a \in 1..Len(mon.answered) : mailbox'[mon.answered[a].id].seen
            /\ mailbox' = mailbox
            /\ conversations' = conversations
       /\ (mon.pc = "sleep" /\ mon' # mon) => mon'.pc = "connect"
       /\ (mon.pc = "connect" /\ mon'.pc = "loop") =>
            \A i \in 1..Len(mailbox) :
                ~mailbox[i].seen => i \in Range(mon'.pending)]_vars

\* the first message was answered and marked; the call for the second one,
\* which has no subject, raised in an earlier cycle, and the present cycle has
\* the second message to work on again while the thread of the first is kept
C20_Witness ==
    /\ mon.pc = "loop"
    /\ mon.pending = <<2>>
    /\ handed = <<1, 1>>
    /\ faults = 0
    /\ mailbox[1].seen
    /\ mailbox[2].subject = None
    /\ Key(mailbox[1].from_email) \in DOMAIN conversations

\* the segments of a thread text, as its labels delimit them
IsLabel(x) == x \in {TheirLabel, MyLabel}

RECURSIVE UpToLabel(_)
UpToLabel(t) ==
    IF t = <<>> \/ IsLabel(Head(t)) THEN <<>>
    ELSE <<Head(t)>> \o UpToLabel(Tail(t))

\* what precedes the first label
FirstSegment(t) == UpToLabel(t)

\* the segments that follow a "my reply" label, in order
RECURSIVE MyReplies(_)
MyReplies(t) ==
    IF t = <<>> THEN <<>>
    ELSE IF Head(t) = MyLabel
         THEN <<UpToLabel(Tail(t))>> \o MyReplies(Tail(t))
         ELSE MyReplies(Tail(t))

\* the write of context c turns store old into store new by giving the
\* sender's entry one more "my reply" segment, the follow-up just sent, after
\* those of the thread the call had read, and the same first segment
AddsDeliveredReply(c, old, new) ==
    LET h == handler[c]
        k == h.conversation_key
    IN  /\ h.success
        /\ DOMAIN new = DOMAIN old \cup {k}
        /\ \A j \in DOMAIN old \ {k} : new[j] = old[j]
        /\ FirstSegment(new[k]) = FirstSegment(h.original_email)
        /\ MyReplies(new[k]) = Append(MyReplies(h.original_email), h.sent_body)

\* C21: a store holds only what was delivered.  Every change of a store is
\* either the campaign's update after a send that returned True, which makes
\* the recipient's entry the draft that was sent, with no "my reply" segment
\* in it, or the update of a handle_reply call whose send returned True, which
\* keeps the first segment of the thread it read and adds to the "my reply"
\* segments exactly the follow-up that was sent.  So an entry exists only
\* after a successful send to its address, its first segment is empty or a
\* draft that was sent, and each of its "my reply" segments is a follow-up
\* that was sent.
C21_StoreReflectsDelivered ==
    [][/\ conversations' # conversations =>
            \/ /\ Seeds
               /\ camp.success
               /\ DOMAIN conversations' = DOMAIN conversations \cup {Key(Recipient)}
               /\ FirstSegment(conversations'[Key(Recipient)]) = camp.sent_body
               /\ MyReplies(conversations'[Key(Recipient)]) = <<>>
            \/ /\ Updates("mon")
               /\ AddsDeliveredReply("mon", conversations, conversations')
       /\ \A w \in Requests :
            whConversations'[w] # whConversations[w] =>
                \/ whConversations'[w] = EmptyStore
                \/ /\ Updates(w)
                   /\ AddsDeliveredReply(w, whConversations[w], whConversations'[w])]_vars
====
